---- MODULE Spec2Model ----
(***************************************************************************)
(* Prompt composition (browser_use/agent/prompts.py) and the step loop     *)
(* that consumes it.  Text is modelled as text: every prompt is the string *)
(* the f-string of the source produces, so truncation, ordering and the    *)
(* presence of a line are facts about characters, not about tokens.        *)
(***************************************************************************)
EXTENDS Integers, Sequences, FiniteSets, TLC

(***************************************************************************)
(* Python values.  Optional[T]: None is the empty tuple, a value v is <<v>>*)
(***************************************************************************)
None == <<>>
Some(v) == <<v>>
Val(o) == o[1]

\* truthiness of an Optional[str]: None and '' are falsy
TruthyStr(o) == o # None /\ Len(Val(o)) > 0
\* truthiness of an Optional[List]: None and [] are falsy
TruthyList(o) == o # None /\ Len(Val(o)) > 0
\* truthiness of an Optional[object]: only None is falsy
TruthyObj(o) == o # None

\* str(x) of an Optional[str] inside an f-string
PyStr(o) == IF o = None THEN "None" ELSE Val(o)

\* s[start:] with Python's slice semantics (negative start counts from the end,
\* out-of-range starts are clamped, and -0 is 0)
PySliceFrom(s, start) ==
    LET n == Len(s)
        lo == IF start < 0
                THEN (IF n + start < 0 THEN 0 ELSE n + start)
                ELSE (IF start > n THEN n ELSE start)
    IN SubSeq(s, lo + 1, n)

\* '%02d' and '%04d'
Pad2(n) == IF n < 10 THEN "0" \o ToString(n) ELSE ToString(n)
Pad4(n) == IF n < 10 THEN "000" \o ToString(n)
           ELSE IF n < 100 THEN "00" \o ToString(n)
           ELSE IF n < 1000 THEN "0" \o ToString(n)
           ELSE ToString(n)

\* datetime.strftime('%Y-%m-%d %H:%M'): the seconds are dropped
strftime(d) ==
    Pad4(d.year) \o "-" \o Pad2(d.month) \o "-" \o Pad2(d.day) \o " "
        \o Pad2(d.hour) \o ":" \o Pad2(d.minute)

(***************************************************************************)
(* Text helpers used to read a prompt back: the lines of a text are the    *)
(* maximal runs between newline characters, in text order.                 *)
(***************************************************************************)
StartsWith(s, p) == Len(p) <= Len(s) /\ SubSeq(s, 1, Len(p)) = p
Newlines(s) == {i \in 1..Len(s) : SubSeq(s, i, i) = "\n"}
SetMin(S) == CHOOSE x \in S : \A y \in S : x <= y
\* the lines of s from position b on, nl being the newline positions from b on
RECURSIVE SplitAt(_, _, _)
SplitAt(s, b, nl) ==
    IF nl = {} THEN <<SubSeq(s, b, Len(s))>>
    ELSE LET q == SetMin(nl)
         IN <<SubSeq(s, b, q - 1)>> \o SplitAt(s, q + 1, nl \ {q})
LinesOf(s) == SplitAt(s, 1, Newlines(s))
HasLine(s, l) == LET L == LinesOf(s) IN \E j \in 1..Len(L) : L[j] = l
HasLineStarting(s, p) == LET L == LinesOf(s) IN \E j \in 1..Len(L) : StartsWith(L[j], p)
Contains(s, sub) ==
    \E i \in 1..(Len(s) - Len(sub) + 1) : SubSeq(s, i, i + Len(sub) - 1) = sub
\* the lines that report an action's result or error
IsActionLine(l) == StartsWith(l, "Action result ") \/ StartsWith(l, "Action error ")
ActionLineStarts(L) == {j \in 1..Len(L) : IsActionLine(L[j])}
ActionLines(s) == SelectSeq(LinesOf(s), IsActionLine)

(***************************************************************************)
(* Element Snapshot renderer (browser_use/dom, not among the sources):     *)
(* index[:]<tag attrs>text</tag> for an interactive element, _[:]text for  *)
(* a context-only one, one element per line, '' for an empty snapshot.     *)
(***************************************************************************)
RECURSIVE RenderAttributes(_, _)
RenderAttributes(attrs, include) ==
    IF attrs = <<>> THEN ""
    ELSE LET a == Head(attrs)
             here == IF \E i \in 1..Len(include) : include[i] = a[1]
                       THEN " " \o a[1] \o "=" \o a[2] ELSE ""
         IN here \o RenderAttributes(Tail(attrs), include)

RenderElement(e, include) ==
    IF e.interactive
      THEN ToString(Val(e.index)) \o "[:]<" \o e.tag
               \o RenderAttributes(e.attributes, include) \o ">"
               \o e.text \o "</" \o e.tag \o ">"
      ELSE "_[:]" \o e.text

RECURSIVE clickable_elements_to_string(_, _)
clickable_elements_to_string(snapshot, include_attributes) ==
    IF snapshot = <<>> THEN ""
    ELSE IF Len(snapshot) = 1 THEN RenderElement(snapshot[1], include_attributes)
    ELSE RenderElement(snapshot[1], include_attributes) \o "\n"
           \o clickable_elements_to_string(Tail(snapshot), include_attributes)

\* str() of the list of tab handles
RECURSIVE JoinComma(_)
JoinComma(xs) ==
    IF xs = <<>> THEN ""
    ELSE IF Len(xs) = 1 THEN xs[1]
    ELSE xs[1] \o ", " \o JoinComma(Tail(xs))
TabsRepr(tabs) == "[" \o JoinComma(tabs) \o "]"

(***************************************************************************)
(* Bounds and input domains                                                *)
(***************************************************************************)
\* longest result list handed to a prompt builder
MaxResults == 2
\* length of the short error text
ShortErrorLen == 3
\* the trailing-character limit get_eval_prompt hard-codes
EVAL_ERROR_LENGTH == 400
\* AgentMessagePrompt's default max_error_length
DEFAULT_MAX_ERROR_LENGTH == 400

\* an error text of n characters whose characters depend on their position
ErrorAlphabet == "abcdefg"
RECURSIVE ErrorOfLength(_, _)
ErrorOfLength(s, n) ==
    IF Len(s) >= n THEN SubSeq(s, 1, n) ELSE ErrorOfLength(s \o s, n)

ShortError == ErrorOfLength(ErrorAlphabet, ShortErrorLen)
\* one character more than the evaluation prompt keeps
LongError == ErrorOfLength(ErrorAlphabet, EVAL_ERROR_LENGTH + 1)

Contents == {None, Some(""), Some("found 3 items")}
Errors == {None, Some(""), Some(ShortError)}
StageErrors == {None, Some(ShortError), Some(LongError)}
ActionResults == [extracted_content : Contents, error : Errors]

RECURSIVE ListsUpTo(_, _)
ListsUpTo(S, n) ==
    IF n = 0 THEN {<<>>}
    ELSE LET shorter == ListsUpTo(S, n - 1)
         IN shorter \cup {Append(l, x) : l \in {m \in shorter : Len(m) = n - 1}, x \in S}

ResultArgs == {None} \cup {Some(l) : l \in ListsUpTo(ActionResults, MaxResults)}

MaxErrorLengths == {0, 2, DEFAULT_MAX_ERROR_LENGTH}

ButtonElement ==
    [index |-> Some(1), tag |-> "button", text |-> "Submit",
     attributes |-> << <<"id", "go">>, <<"class", "btn">> >>, interactive |-> TRUE]
ContextElement ==
    [index |-> None, tag |-> "", text |-> "Welcome",
     attributes |-> <<>>, interactive |-> FALSE]
LinkElement ==
    [index |-> Some(2), tag |-> "a", text |-> "Next",
     attributes |-> <<>>, interactive |-> TRUE]

EmptySnapshot == <<>>
FormSnapshot == <<ButtonElement, ContextElement>>
LinkSnapshot == <<ContextElement, LinkElement>>

Screenshots == {None, Some(""), Some("iVBORw0KGgo=")}

BrowserState(url, tabs, element_tree, screenshot) ==
    [url |-> url, tabs |-> tabs, element_tree |-> element_tree,
     screenshot |-> screenshot]

CurrentStates ==
    {BrowserState("about:blank", <<"tab1">>, EmptySnapshot, s) : s \in Screenshots}
      \cup {BrowserState("https://shop.example", <<"tab1", "tab2">>, FormSnapshot, s) :
               s \in Screenshots}
PreviousStates ==
    {BrowserState("https://prev.example", <<"tab0">>, LinkSnapshot, None)}

StateArgs == {None} \cup {Some(s) : s \in CurrentStates}
PreviousStateArgs == {None} \cup {Some(s) : s \in PreviousStates}
GoalArgs == {None, Some(""), Some("open the shop")}


(***************************************************************************)
(* State                                                                   *)
(***************************************************************************)
VARIABLES
    heap,       \* the list objects include_attributes fields refer to
    amp,        \* the AgentMessagePrompt object
    userMsg,    \* what the last get_user_message call on amp returned
    sp,         \* the SystemPrompt objects, by identity
    calls,      \* per SystemPrompt object and method: the calls made so far
    run         \* the agent run: the Step Pipeline's state

vars == <<heap, amp, userMsg, sp, calls, run>>

\* include_attributes: list[str] = [] is one list object shared by every
\* construction that omits the argument; a caller's list is another object
ListRefs == {"default_list", "caller_list"}
InitialHeap == [default_list |-> <<>>, caller_list |-> <<"id">>]

(***************************************************************************)
(* SystemPrompt                                                            *)
(***************************************************************************)
SystemPromptInit(action_description, current_date, max_actions_per_step, include_attributes) ==
    [default_action_description |-> action_description,
     current_date |-> current_date,
     max_actions_per_step |-> max_actions_per_step,
     include_attributes |-> include_attributes]

\* the fixed rule text, abridged to its first and last rules; the last line
\* carries the configured cap
IMPORTANT_RULES_TEXT ==
    "\n1. RESPONSE FORMAT: You must ALWAYS respond with valid JSON in this exact format:\n"
      \o "8. ACTION SEQUENCING:\n"
      \o "   - If the page changes after an action, the sequence is interrupted and you get the new state.\n"
      \o "9. Troubleshooting: If you are stuck and an action fails, try out a different approach.\n"

important_rules(self) ==
    IMPORTANT_RULES_TEXT
      \o "   - use maximum " \o ToString(self.max_actions_per_step) \o " actions per sequence"

input_format ==
    "\nINPUT STRUCTURE:\n1. Current URL: The webpage you're currently on\n"
      \o "2. Available Tabs: List of open browser tabs\n"
      \o "3. Interactive Elements: List in the format:\n"
      \o "   index[:]<element_type>element_text</element_type>\n"

AGENT_ROLE_TEXT ==
    "You are a precise browser automation agent that interacts with websites through structured commands. Your role is to:\n"
REMEMBER_TEXT ==
    "Remember: Your responses must be valid JSON matching the specified format. Each action in the sequence must be valid."

get_system_message(self) ==
    LET time_str == strftime(self.current_date)
    IN AGENT_ROLE_TEXT
         \o "\nCurrent date and time: " \o time_str \o "\n\n"
         \o input_format \o "\n\n"
         \o important_rules(self) \o "\n\n"
         \o "Functions:\n" \o self.default_action_description \o "\n\n"
         \o REMEMBER_TEXT

\* the result loop of get_eval_prompt: the error keeps its last 400 characters
RECURSIVE EvalResultLines(_, _, _)
EvalResultLines(result, i, n) ==
    IF i > n THEN ""
    ELSE LET resul == result[i]
             content == IF TruthyStr(resul.extracted_content)
                          THEN "\nAction result " \o ToString(i) \o "/" \o ToString(n)
                                 \o ": " \o Val(resul.extracted_content)
                          ELSE ""
             error == IF TruthyStr(resul.error)
                        THEN "\nAction error " \o ToString(i) \o "/" \o ToString(n)
                               \o ": ..." \o PySliceFrom(Val(resul.error), 0 - EVAL_ERROR_LENGTH)
                        ELSE ""
         IN content \o error \o EvalResultLines(result, i + 1, n)

EVAL_ROLE_TEXT ==
    "You are a state evaluator. Your role is to carefully analyze browser states and determine progress.\n\nCONTEXT:\n"
EVAL_INSTRUCTIONS_TEXT ==
    "\n\nINSTRUCTIONS:\n1. Compare the previous and current browser states\n"
      \o "2. Evaluate if the previous goal was achieved successfully\n"
      \o "Return JSON in this exact format:\n"
      \o "{\n    \"current_state\": {\n        \"evaluation_previous_goal\": \"...\",\n"
      \o "        \"memory\": \"...\",\n        \"next_goal\": \"...\"\n    }\n}"

get_eval_prompt(self, lists, previous_state, previous_goal, current_state, result) ==
    LET include == lists[self.include_attributes]
        state_context ==
            "\nPrevious State URL: "
              \o (IF TruthyObj(previous_state) THEN Val(previous_state).url ELSE "None")
              \o "\nPrevious State Tabs: "
              \o (IF TruthyObj(previous_state) THEN TabsRepr(Val(previous_state).tabs) ELSE "None")
              \o "\nPrevious State Elements: "
              \o (IF TruthyObj(previous_state)
                    THEN clickable_elements_to_string(Val(previous_state).element_tree, include)
                    ELSE "None")
              \o "\nPrevious Goal: "
              \o (IF TruthyStr(previous_goal) THEN Val(previous_goal) ELSE "None")
              \o "\nCurrent State URL: "
              \o (IF TruthyObj(current_state) THEN Val(current_state).url ELSE "None")
              \o "\nCurrent State Tabs: "
              \o (IF TruthyObj(current_state) THEN TabsRepr(Val(current_state).tabs) ELSE "None")
              \o "\nCurrent State Elements: "
              \o (IF TruthyObj(current_state)
                    THEN clickable_elements_to_string(Val(current_state).element_tree, include)
                    ELSE "None")
              \o "\n"
        with_results ==
            IF TruthyList(result)
              THEN state_context \o EvalResultLines(Val(result), 1, Len(Val(result)))
              ELSE state_context
    IN EVAL_ROLE_TEXT \o with_results
         \o "\nCurrent date and time: " \o strftime(self.current_date)
         \o EVAL_INSTRUCTIONS_TEXT

FILTER_ROLE_TEXT ==
    "You are a DOM analyzer. Filter elements relevant to the goal.\n\n"
      \o "Interactive Elements: List in the format:\n"
      \o "   index[:]<element_type>element_text</element_type>\n\n"
FILTER_RETURN_TEXT ==
    "Return the filtered interactive elements in the same format as the example.\n"

get_filter_prompt(self, lists, next_goal, current_state) ==
    LET include == lists[self.include_attributes]
        state_context ==
            "\nCurrent URL: "
              \o (IF TruthyObj(current_state) THEN Val(current_state).url ELSE "None")
              \o "\nOpen Tabs: "
              \o (IF TruthyObj(current_state) THEN TabsRepr(Val(current_state).tabs) ELSE "None")
              \o "\nAvailable Elements: "
              \o (IF TruthyObj(current_state)
                    THEN clickable_elements_to_string(Val(current_state).element_tree, include)
                    ELSE "None")
              \o "\n"
    IN FILTER_ROLE_TEXT
         \o "Next Goal: " \o PyStr(next_goal) \o "\n" \o state_context
         \o "\n\nCurrent date and time: " \o strftime(self.current_date) \o "\n"
         \o FILTER_RETURN_TEXT

get_action_prompt(self, eval_result, filter_result, next_goal, memory) ==
    AGENT_ROLE_TEXT
      \o "\n\t\tCurrent date and time: " \o strftime(self.current_date) \o "\n\n\t\t"
      \o input_format \o "\n\n\t\t"
      \o important_rules(self) \o "\n\n\t\t"
      \o "Functions:\n\t\t" \o self.default_action_description \o "\n\n\n\t\t"
      \o "Evaluation Result of previous goal: " \o eval_result \o "\n\t\t"
      \o "Memory: " \o memory \o "\n\t\t"
      \o "Next Goal: " \o next_goal \o "\n\t\t"
      \o "Filtered Elements: " \o filter_result \o "\n\n\t\t"
      \o REMEMBER_TEXT

(***************************************************************************)
(* AgentMessagePrompt                                                      *)
(***************************************************************************)
AgentMessagePromptInit(state, result, include_attributes, max_error_length, previous_state, previous_goal) ==
    [state |-> state, result |-> result, max_error_length |-> max_error_length,
     include_attributes |-> include_attributes,
     previous_state |-> previous_state, previous_goal |-> previous_goal]

\* the result loop numbering the results as enumerate() does, from 0
RECURSIVE UserResultLines_ZeroBased(_, _, _, _)
UserResultLines_ZeroBased(result, i, n, max_error_length) ==
    IF i > n THEN ""
    ELSE LET r == result[i]
             content == IF TruthyStr(r.extracted_content)
                          THEN "\nAction result " \o ToString(i - 1) \o "/" \o ToString(n)
                                 \o ": " \o Val(r.extracted_content)
                          ELSE ""
             error == IF TruthyStr(r.error)
                        THEN "\nAction error " \o ToString(i - 1) \o "/" \o ToString(n)
                               \o ": ..." \o PySliceFrom(Val(r.error), 0 - max_error_length)
                        ELSE ""
         IN content \o error \o UserResultLines_ZeroBased(result, i + 1, n, max_error_length)

\* the result loop of get_user_message: the error keeps its last
\* max_error_length characters
RECURSIVE UserResultLines(_, _, _, _)
UserResultLines(result, i, n, max_error_length) ==
    IF i > n THEN ""
    ELSE LET r == result[i]
             content == IF TruthyStr(r.extracted_content)
                          THEN "\nAction result " \o ToString(i) \o "/" \o ToString(n)
                                 \o ": " \o Val(r.extracted_content)
                          ELSE ""
             error == IF TruthyStr(r.error)
                        THEN "\nAction error " \o ToString(i) \o "/" \o ToString(n)
                               \o ": ..." \o PySliceFrom(Val(r.error), 0 - max_error_length)
                        ELSE ""
         IN content \o error \o UserResultLines(result, i + 1, n, max_error_length)

\* the previous-state block of get_user_message
state_comparison(self, lists) ==
    IF TruthyObj(self.previous_state) /\ TruthyStr(self.previous_goal)
      THEN "\nPrevious Goal: " \o Val(self.previous_goal)
             \o "\nPrevious URL: " \o Val(self.previous_state).url
             \o "\nPrevious Elements: "
             \o clickable_elements_to_string(Val(self.previous_state).element_tree,
                                             lists[self.include_attributes])
             \o "\n"
      ELSE ""

\* the text of the elements section
elements_text(self, lists) ==
    clickable_elements_to_string(Val(self.state).element_tree,
                                 lists[self.include_attributes])

state_description(self, lists) ==
    "\n" \o state_comparison(self, lists)
      \o "\nCurrent URL: " \o Val(self.state).url
      \o "\nAvailable tabs:\n" \o TabsRepr(Val(self.state).tabs)
      \o "\nInteractive elements from current page view:\n"
      \o elements_text(self, lists) \o "\n"

\* a HumanMessage: text-only content, or a text part followed by an image part
TextMessage(text) == [kind |-> "text", text |-> text, image_url |-> ""]
MultiPartMessage(text, url) == [kind |-> "parts", text |-> text, image_url |-> url]
Raised(exc) == [kind |-> "raised", text |-> exc, image_url |-> ""]
NoMessage == [kind |-> "none", text |-> "", image_url |-> ""]

\* the vision branch taken whenever the screenshot is not None
user_message_for_IsNotNone(description, screenshot) ==
    IF screenshot # None
      THEN MultiPartMessage(description, "data:image/png;base64," \o Val(screenshot))
      ELSE TextMessage(description)

\* which message get_user_message builds for a description and a screenshot
user_message_for(description, screenshot) ==
    IF TruthyStr(screenshot)
      THEN MultiPartMessage(description, "data:image/png;base64," \o Val(screenshot))
      ELSE TextMessage(description)

get_user_message(self, lists) ==
    IF self.state = None
      THEN Raised("AttributeError: 'NoneType' object has no attribute 'url'")
      ELSE LET base == state_description(self, lists)
               description ==
                   IF TruthyList(self.result)
                     THEN base \o UserResultLines(Val(self.result), 1, Len(Val(self.result)),
                                                  self.max_error_length)
                     ELSE base
           IN user_message_for(description, Val(self.state).screenshot)


(***************************************************************************)
(* The Step Pipeline (browser_use/agent/service.py, not among the sources; *)
(* modelled from the design's state machine):                              *)
(*   Idle -> Observing -> (Evaluating -> Filtering) -> Deciding            *)
(*        -> Executing -> Aggregating -> (Observing | Done | Failed)       *)
(***************************************************************************)
\* largest step budget followed
MaxSteps == 2
\* longest action list of a decision
MaxActions == 3
\* decision-parse retries before the step fails
MaxRetries == 1
\* consecutive failed steps tolerated before the run fails
MaxFailures == 1

Terminal == {"Done", "Failed"}
NoStep == [decision |-> <<>>, executed |-> <<>>, interrupted |-> 0, results |-> <<>>]

IdleRun(max_steps, two_stage) ==
    [phase |-> "Idle", two_stage |-> two_stage,
     step_number |-> 0, max_steps |-> max_steps,
     decision |-> <<>>, executed |-> <<>>, results |-> <<>>, interrupted |-> 0,
     observed |-> FALSE, step_failed |-> FALSE,
     failures |-> 0, retries |-> 0, eval_retries |-> 0,
     last |-> NoStep, absorbed |-> FALSE, cause |-> ""]

(***************************************************************************)
(* Calls.  A call of a SystemPrompt method is recorded, per object and     *)
(* method, with its arguments and the text it returned.                    *)
(***************************************************************************)
Objects == {1, 2}
Methods == {"get_system_message", "get_eval_prompt", "get_filter_prompt", "get_action_prompt"}

NoArgs ==
    [previous_state |-> None, previous_goal |-> None, current_state |-> None,
     result |-> None, next_goal |-> None, eval_result |-> None,
     filter_result |-> None, memory |-> None]
NoCall == [count |-> 0, args |-> NoArgs, last |-> ""]

\* the number of SystemPrompt calls followed
MaxCalls == 3

RECURSIVE SumOver(_, _)
SumOver(f, S) ==
    IF S = {} THEN 0
    ELSE LET x == CHOOSE y \in S : TRUE IN f[x] + SumOver(f, S \ {x})
TotalCalls ==
    SumOver([o \in Objects |-> SumOver([m \in Methods |-> calls[o][m].count], Methods)],
            Objects)

Record(call, args, content) ==
    [count |-> call.count + 1, args |-> args, last |-> content]

FixedDate == [year |-> 2025, month |-> 1, day |-> 9, hour |-> 8, minute |-> 5, second |-> 30]
ACTION_DESCRIPTION == "click_element: index\ndone: text"
\* SystemPrompt's default max_actions_per_step
DEFAULT_MAX_ACTIONS_PER_STEP == 10
DefaultSystemPrompt ==
    SystemPromptInit(ACTION_DESCRIPTION, FixedDate, DEFAULT_MAX_ACTIONS_PER_STEP, "default_list")
DefaultAgentMessagePrompt ==
    AgentMessagePromptInit(None, None, "default_list", DEFAULT_MAX_ERROR_LENGTH, None, None)

\* AgentMessagePrompt.get_user_message(): reads the object, returns a message
GetUserMessage ==
    /\ userMsg' = get_user_message(amp, heap)
    /\ UNCHANGED <<heap, amp, sp, calls, run>>

\* SystemPrompt.get_system_message()
GetSystemMessage(o) ==
    /\ TotalCalls < MaxCalls
    /\ calls' = [calls EXCEPT ![o]["get_system_message"] =
                     Record(@, NoArgs, get_system_message(sp[o]))]
    /\ UNCHANGED <<heap, amp, userMsg, sp, run>>

\* SystemPrompt.get_eval_prompt(previous_state, previous_goal, current_state, result)
GetEvalPrompt(o, previous_state, previous_goal, current_state, result) ==
    /\ TotalCalls < MaxCalls
    /\ LET args == [NoArgs EXCEPT !.previous_state = previous_state,
                                  !.previous_goal = previous_goal,
                                  !.current_state = current_state,
                                  !.result = result]
           content == get_eval_prompt(sp[o], heap, previous_state, previous_goal,
                                      current_state, result)
       IN calls' = [calls EXCEPT ![o]["get_eval_prompt"] = Record(@, args, content)]
    /\ UNCHANGED <<heap, amp, userMsg, sp, run>>

\* get_filter_prompt adding an attribute to the list its object refers to
GetFilterPrompt_AppendsAttribute(o, next_goal, current_state) ==
    /\ TotalCalls < MaxCalls
    /\ LET args == [NoArgs EXCEPT !.next_goal = next_goal,
                                  !.current_state = current_state]
           content == get_filter_prompt(sp[o], heap, next_goal, current_state)
       IN calls' = [calls EXCEPT ![o]["get_filter_prompt"] = Record(@, args, content)]
    /\ heap' = [heap EXCEPT ![sp[o].include_attributes] = Append(@, "class")]
    /\ UNCHANGED <<amp, userMsg, sp, run>>

\* SystemPrompt.get_filter_prompt(next_goal, current_state)
GetFilterPrompt(o, next_goal, current_state) ==
    /\ TotalCalls < MaxCalls
    /\ LET args == [NoArgs EXCEPT !.next_goal = next_goal,
                                  !.current_state = current_state]
           content == get_filter_prompt(sp[o], heap, next_goal, current_state)
       IN calls' = [calls EXCEPT ![o]["get_filter_prompt"] = Record(@, args, content)]
    /\ UNCHANGED <<heap, amp, userMsg, sp, run>>

\* SystemPrompt.get_action_prompt(eval_result, filter_result, next_goal, memory)
GetActionPrompt(o, eval_result, filter_result, next_goal, memory) ==
    /\ TotalCalls < MaxCalls
    /\ LET args == [NoArgs EXCEPT !.eval_result = Some(eval_result),
                                  !.filter_result = Some(filter_result),
                                  !.next_goal = Some(next_goal),
                                  !.memory = Some(memory)]
           content == get_action_prompt(sp[o], eval_result, filter_result, next_goal, memory)
       IN calls' = [calls EXCEPT ![o]["get_action_prompt"] = Record(@, args, content)]
    /\ UNCHANGED <<heap, amp, userMsg, sp, run>>

(***************************************************************************)
(* The observation prompt: an AgentMessagePrompt is constructed from the   *)
(* step's inputs and asked for its message.                                *)
(***************************************************************************)
Init ==
    /\ heap = InitialHeap
    /\ \E state \in StateArgs, result \in ResultArgs,
          max_error_length \in MaxErrorLengths,
          previous_state \in PreviousStateArgs, previous_goal \in GoalArgs :
         amp = AgentMessagePromptInit(state, result, "caller_list", max_error_length,
                                      previous_state, previous_goal)
    /\ userMsg = NoMessage
    /\ sp = [o \in Objects |-> DefaultSystemPrompt]
    /\ calls = [o \in Objects |-> [m \in Methods |-> NoCall]]
    /\ run = IdleRun(1, FALSE)

Next == GetUserMessage

Spec == Init /\ [][Next]_vars

\* get_user_message returned a message
Produced == userMsg.kind \in {"text", "parts"}
ResultList == IF amp.result = None THEN <<>> ELSE Val(amp.result)
LineTag(kind, i, n) == "Action " \o kind \o " " \o ToString(i) \o "/" \o ToString(n) \o ": "

\* C1: an error text longer than max_error_length N >= 0 is rendered as '...'
\* followed by exactly its last N characters.
C1_ErrorKeepsLastN ==
    Produced =>
        LET n == Len(ResultList)
            N == amp.max_error_length
        IN \A i \in 1..n :
             LET e == ResultList[i].error
             IN (TruthyStr(e) /\ N >= 0 /\ Len(Val(e)) > N) =>
                  HasLine(userMsg.text,
                          LineTag("error", i, n) \o "..."
                            \o SubSeq(Val(e), Len(Val(e)) - N + 1, Len(Val(e))))

\* the line that follows the header of the elements section
ElementsSectionHeader == "Interactive elements from current page view:"
ElementsSectionFirstLine(text) ==
    LET L == LinesOf(text)
        h == CHOOSE j \in 1..Len(L) : L[j] = ElementsSectionHeader
    IN L[h + 1]

\* C2: a state whose element snapshot renders to empty text is shown with the
\* literal "empty page" marker in the elements section.
C2_EmptyPageMarker ==
    (Produced /\ Val(amp.state).element_tree = EmptySnapshot) =>
        ElementsSectionFirstLine(userMsg.text) = "empty page"

\* the state has a screenshot: there is image data to send
HasScreenshot(state) == state.screenshot # None /\ Val(state.screenshot) # ""

\* C5: the message is multi-part (the description, then the image carrying the
\* base64 screenshot) exactly when the state has a screenshot, and text-only
\* otherwise, with the description the state would get without the screenshot.
C5_MultiPartIffScreenshot ==
    Produced =>
        LET state == Val(amp.state)
            bare == [amp EXCEPT !.state = Some([state EXCEPT !.screenshot = None])]
        IN /\ (userMsg.kind = "parts") <=> HasScreenshot(state)
           /\ userMsg.kind = "parts" =>
                userMsg.image_url = "data:image/png;base64," \o Val(state.screenshot)
           /\ userMsg.kind = "text" => userMsg.image_url = ""
           /\ StartsWith(userMsg.text, state_description(amp, heap))
           /\ userMsg.text = get_user_message(bare, heap).text

C5_Witness ==
    /\ userMsg.kind = "parts"
    /\ HasScreenshot(Val(amp.state))
    /\ TruthyList(amp.result)

\* C7: result i of n contributes the line 'Action result i/n' iff its content is
\* non-empty and the line 'Action error i/n' iff its error is non-empty, content
\* before error, results in list order, after the state description, n being the
\* length of the whole list; an empty or absent list contributes no line.
C7_ResultLines ==
    Produced =>
        LET n == Len(ResultList)
            L == LinesOf(userMsg.text)
            A == ActionLineStarts(L)
            at(kind, i) == {b \in A : StartsWith(L[b], LineTag(kind, i, n))}
            header == CHOOSE j \in 1..Len(L) : L[j] = ElementsSectionHeader
        IN /\ \A i \in 1..n :
                /\ IF TruthyStr(ResultList[i].extracted_content)
                     THEN \E b \in A : L[b] = LineTag("result", i, n)
                                                \o Val(ResultList[i].extracted_content)
                     ELSE at("result", i) = {}
                /\ TruthyStr(ResultList[i].error) <=> at("error", i) # {}
                /\ Cardinality(at("result", i)) <= 1
                /\ Cardinality(at("error", i)) <= 1
                /\ \A b \in at("result", i), c \in at("error", i) : b < c
                /\ \A j \in (i + 1)..n :
                     \A b \in at("result", i) \cup at("error", i),
                        c \in at("result", j) \cup at("error", j) : b < c
           /\ A = UNION {at("result", i) \cup at("error", i) : i \in 1..n}
           /\ \A b \in A : b > header

C7_Witness ==
    /\ Produced
    /\ Len(ResultList) = 2
    /\ ~TruthyStr(ResultList[1].extracted_content) /\ ~TruthyStr(ResultList[1].error)
    /\ TruthyStr(ResultList[2].extracted_content) /\ TruthyStr(ResultList[2].error)
    /\ HasLineStarting(userMsg.text, "Action result 2/2: ")
    /\ HasLineStarting(userMsg.text, "Action error 2/2: ...")

\* C8: a supplied previous state is rendered (URL, tabs, elements) next to the
\* current one; without one the prompt holds only the current state.
C8_PreviousStateRendered ==
    Produced =>
        IF amp.previous_state # None
          THEN LET prev == Val(amp.previous_state)
               IN /\ HasLine(userMsg.text, "Previous URL: " \o prev.url)
                  /\ Contains(userMsg.text, TabsRepr(prev.tabs))
                  /\ HasLineStarting(userMsg.text, "Previous Elements: ")
          ELSE ~HasLineStarting(userMsg.text, "Previous ")


(***************************************************************************)
(* The staged prompts of one step: the evaluation and filter prompts are   *)
(* composed from the inputs the observation prompt is built from.          *)
(***************************************************************************)
\* longest result list in the staged step
MaxStageResults == 1
\* the positive limits: a short one and the default
StageMaxErrorLengths == {2, DEFAULT_MAX_ERROR_LENGTH}

StagesInit ==
    /\ heap = InitialHeap
    /\ \E state \in StateArgs,
          result \in {None} \cup {Some(l) :
                     l \in ListsUpTo([extracted_content : Contents, error : StageErrors],
                                     MaxStageResults)},
          max_error_length \in StageMaxErrorLengths,
          previous_state \in PreviousStateArgs, previous_goal \in GoalArgs :
         amp = AgentMessagePromptInit(state, result, "caller_list", max_error_length,
                                      previous_state, previous_goal)
    /\ userMsg = NoMessage
    /\ sp = [o \in Objects |->
               SystemPromptInit(ACTION_DESCRIPTION, FixedDate,
                                DEFAULT_MAX_ACTIONS_PER_STEP, "caller_list")]
    /\ calls = [o \in Objects |-> [m \in Methods |-> NoCall]]
    /\ run = IdleRun(1, FALSE)

StepEvalPrompt ==
    /\ calls[1]["get_eval_prompt"].count = 0
    /\ GetEvalPrompt(1, amp.previous_state, amp.previous_goal, amp.state, amp.result)

StepFilterPrompt ==
    /\ calls[1]["get_filter_prompt"].count = 0
    /\ \E next_goal \in {None, Some("open the shop")} :
         GetFilterPrompt(1, next_goal, amp.state)

StagesNext ==
    \/ StepEvalPrompt
    \/ StepFilterPrompt
    \/ GetUserMessage

SpecStages == StagesInit /\ [][StagesNext]_vars

EvalCall == calls[1]["get_eval_prompt"]
FilterCall == calls[1]["get_filter_prompt"]

\* C9: every builder whose state argument is optional produces a message when
\* it is absent: the evaluation and filter prompts show 'None' for each field
\* of an absent state, and get_user_message on a prompt without a state returns
\* a message instead of raising.
C9_AbsentStateStillRenders ==
    /\ (EvalCall.count > 0 /\ EvalCall.args.previous_state = None) =>
          /\ HasLine(EvalCall.last, "Previous State URL: None")
          /\ HasLine(EvalCall.last, "Previous State Tabs: None")
          /\ HasLine(EvalCall.last, "Previous State Elements: None")
    /\ (EvalCall.count > 0 /\ EvalCall.args.current_state = None) =>
          /\ HasLine(EvalCall.last, "Current State URL: None")
          /\ HasLine(EvalCall.last, "Current State Tabs: None")
          /\ HasLine(EvalCall.last, "Current State Elements: None")
    /\ (FilterCall.count > 0 /\ FilterCall.args.current_state = None) =>
          /\ HasLine(FilterCall.last, "Current URL: None")
          /\ HasLine(FilterCall.last, "Open Tabs: None")
          /\ HasLine(FilterCall.last, "Available Elements: None")
    /\ (userMsg.kind # "none" /\ amp.state = None) => Produced

\* C10: for the same result list, the result and error lines of the evaluation
\* prompt are the lines of the observation prompt, whatever max_error_length is.
C10_EvalLinesMatchUserLines ==
    (EvalCall.count > 0 /\ EvalCall.args.result = amp.result /\ Produced) =>
        ActionLines(EvalCall.last) = ActionLines(userMsg.text)


(***************************************************************************)
(* Composition: two SystemPrompt objects built from the same action        *)
(* description, cap and attribute list, at possibly different times, are   *)
(* called in any order.                                                    *)
(***************************************************************************)
LaterMinute == [FixedDate EXCEPT !.minute = 6, !.second = 2]
LaterSecond == [FixedDate EXCEPT !.second = 31]
Dates == {FixedDate, LaterMinute, LaterSecond}

ShopState == BrowserState("https://shop.example", <<"tab1", "tab2">>, FormSnapshot, None)
ComposeStateArgs == {None, Some(ShopState)}
ComposeResultArgs ==
    {None, Some(<<[extracted_content |-> Some("found 3 items"), error |-> Some(ShortError)]>>)}

ComposeInit ==
    /\ heap = InitialHeap
    /\ amp = DefaultAgentMessagePrompt
    /\ userMsg = NoMessage
    /\ \E max_actions_per_step \in {1, DEFAULT_MAX_ACTIONS_PER_STEP},
          include_attributes \in ListRefs, later \in Dates :
         sp = [o \in Objects |->
                 SystemPromptInit(ACTION_DESCRIPTION,
                                  IF o = 1 THEN FixedDate ELSE later,
                                  max_actions_per_step, include_attributes)]
    /\ calls = [o \in Objects |-> [m \in Methods |-> NoCall]]
    /\ run = IdleRun(1, FALSE)

ComposeSystemMessage == \E o \in Objects : GetSystemMessage(o)

ComposeEvalPrompt ==
    \E o \in Objects, state \in ComposeStateArgs, result \in ComposeResultArgs :
        GetEvalPrompt(o, None, Some("open the shop"), state, result)

ComposeFilterPrompt ==
    \E o \in Objects, state \in ComposeStateArgs :
        GetFilterPrompt(o, Some("open the shop"), state)

ComposeActionPrompt ==
    \E o \in Objects, memory \in {"", "on the shop page"} :
        GetActionPrompt(o, "Success", "1[:]<button>Submit</button>", "press Submit", memory)

ComposeNext ==
    \/ ComposeSystemMessage
    \/ ComposeEvalPrompt
    \/ ComposeFilterPrompt
    \/ ComposeActionPrompt

SpecCompose == ComposeInit /\ [][ComposeNext]_vars

\* a prompt with the characters of its time stamp removed
StampLabel == "Current date and time: "
StampLength == 16
WithoutStamp(text) ==
    LET p == CHOOSE i \in 1..Len(text) :
                 SubSeq(text, i, i + Len(StampLabel) - 1) = StampLabel
        q == p + Len(StampLabel)
    IN SubSeq(text, 1, q - 1) \o SubSeq(text, q + StampLength, Len(text))

\* C6: whatever calls were made before, and on whichever object, a method
\* called with the same arguments on objects built from the same action
\* description, cap and attribute list returns the same text outside the stamp.
C6_NoHiddenState ==
    \A m \in Methods : \A o1, o2 \in Objects :
        (/\ calls[o1][m].count > 0
         /\ calls[o2][m].count > 0
         /\ calls[o1][m].args = calls[o2][m].args) =>
            WithoutStamp(calls[o1][m].last) = WithoutStamp(calls[o2][m].last)

C6_Witness ==
    /\ sp[1].current_date # sp[2].current_date
    /\ calls[1]["get_eval_prompt"].count > 0
    /\ calls[2]["get_eval_prompt"].count > 0
    /\ calls[1]["get_eval_prompt"].args = calls[2]["get_eval_prompt"].args
    /\ calls[1]["get_eval_prompt"].args.current_state # None
    /\ calls[1]["get_eval_prompt"].last # calls[2]["get_eval_prompt"].last
    /\ calls[2]["get_filter_prompt"].count > 0


(***************************************************************************)
(* The agent run                                                           *)
(***************************************************************************)
ActionNames == {"click_element", "input_text", "done"}
\* an Agent Decision's action list: non-empty, a done action only as the last
Decisions ==
    {d \in ListsUpTo(ActionNames, MaxActions) :
        d # <<>> /\ \A i \in 1..(Len(d) - 1) : d[i] # "done"}

DriverStates ==
    {BrowserState("about:blank", <<"tab1">>, EmptySnapshot, None),
     BrowserState("https://shop.example", <<"tab1", "tab2">>, FormSnapshot, None)}

ErrorResult(text) == [extracted_content |-> None, error |-> Some(text)]
ContentResult(text) == [extracted_content |-> Some(text), error |-> None]
\* the discard notice the Executing state adds to the partial results
InterruptNotice(k, n) ==
    ContentResult("Sequence interrupted after action " \o ToString(k) \o "/"
                    \o ToString(n) \o ": the page changed")

\* Idle -> Observing
StartRun ==
    /\ run.phase = "Idle"
    /\ run' = [run EXCEPT !.phase = "Observing"]
    /\ UNCHANGED <<heap, amp, userMsg, sp, calls>>

\* Observing: the driver captured a state; the observation prompt is composed
\* from it and from the previous step's results
Observe ==
    /\ run.phase = "Observing"
    /\ \E state \in DriverStates :
         amp' = AgentMessagePromptInit(
                    Some(state),
                    IF run.last.results = <<>> THEN None ELSE Some(run.last.results),
                    "default_list", DEFAULT_MAX_ERROR_LENGTH, None, None)
    /\ userMsg' = get_user_message(amp', heap)
    /\ run' = [run EXCEPT !.observed = TRUE,
                          !.phase = IF run.two_stage THEN "Evaluating" ELSE "Deciding"]
    /\ UNCHANGED <<heap, sp, calls>>

\* Observing: the driver cannot read the page; the step fails with an error result
ObserveError ==
    /\ run.phase = "Observing"
    /\ run' = [run EXCEPT !.results = <<ErrorResult("ObservationError: cannot read page")>>,
                          !.step_failed = TRUE, !.absorbed = TRUE,
                          !.phase = "Aggregating"]
    /\ UNCHANGED <<heap, amp, userMsg, sp, calls>>

\* the browser session is lost: the run fails, the step in progress is dropped
DriverLost ==
    /\ run.phase \in {"Observing", "Executing"}
    /\ run' = [run EXCEPT !.phase = "Failed", !.cause = "UnrecoverableDriverError",
                          !.decision = <<>>, !.executed = <<>>, !.results = <<>>,
                          !.interrupted = 0]
    /\ UNCHANGED <<heap, amp, userMsg, sp, calls>>

\* Evaluating: the evaluation parsed
Evaluate ==
    /\ run.phase = "Evaluating"
    /\ run' = [run EXCEPT !.phase = "Filtering"]
    /\ UNCHANGED <<heap, amp, userMsg, sp, calls>>

\* Evaluating: a parse failure is retried once, then the evaluation is "Unknown"
EvaluateError ==
    /\ run.phase = "Evaluating"
    /\ run' = IF run.eval_retries < 1
                THEN [run EXCEPT !.eval_retries = @ + 1, !.absorbed = TRUE]
                ELSE [run EXCEPT !.phase = "Filtering", !.absorbed = TRUE]
    /\ UNCHANGED <<heap, amp, userMsg, sp, calls>>

\* Filtering: the filtered snapshot, or the unfiltered one when nothing parsed
Filter ==
    /\ run.phase = "Filtering"
    /\ run' = [run EXCEPT !.phase = "Deciding"]
    /\ UNCHANGED <<heap, amp, userMsg, sp, calls>>

\* Deciding: the model's output parsed into an Agent Decision.  The observation
\* prompt has been sent, and the previous step's results, consumed by it, are
\* discarded
Decide ==
    /\ run.phase = "Deciding"
    /\ \E d \in Decisions :
         run' = [run EXCEPT !.decision = d, !.executed = <<>>, !.results = <<>>,
                            !.interrupted = 0, !.observed = FALSE, !.last = NoStep,
                            !.phase = "Executing"]
    /\ amp' = DefaultAgentMessagePrompt
    /\ userMsg' = NoMessage
    /\ UNCHANGED <<heap, sp, calls>>

\* Deciding: malformed output or a transport error; retried up to MaxRetries,
\* then the step fails
DecideError ==
    /\ run.phase = "Deciding"
    /\ run' = IF run.retries < MaxRetries
                THEN [run EXCEPT !.retries = @ + 1, !.absorbed = TRUE]
                ELSE [run EXCEPT !.results = <<ErrorResult("DecisionParseError: malformed output")>>,
                                 !.step_failed = TRUE, !.absorbed = TRUE,
                                 !.phase = "Aggregating"]
    /\ UNCHANGED <<heap, amp, userMsg, sp, calls>>

\* Executing that records the page change and goes on with the next action
ExecuteStep_KeepsGoing(r, ok, changed) ==
    LET i == Len(r.executed) + 1
        n == Len(r.decision)
        name == r.decision[i]
        result == IF ok THEN ContentResult("did " \o name)
                  ELSE ErrorResult("ActionExecutionError: " \o name \o " failed")
        interrupt == changed /\ i < n
    IN [r EXCEPT !.executed = Append(@, <<i, name>>),
                 !.results = IF interrupt
                               THEN @ \o <<result, InterruptNotice(i, n)>>
                               ELSE Append(@, result),
                 !.interrupted = IF interrupt THEN i ELSE @,
                 !.absorbed = @ \/ ~ok,
                 !.phase = IF i = n THEN "Aggregating" ELSE "Executing"]

\* what Executing does with the next action of the decision: the action is
\* applied, its result recorded, and a page change before the last action
\* discards the rest
ExecuteStep(r, ok, changed) ==
    LET i == Len(r.executed) + 1
        n == Len(r.decision)
        name == r.decision[i]
        result == IF ok THEN ContentResult("did " \o name)
                  ELSE ErrorResult("ActionExecutionError: " \o name \o " failed")
        interrupt == changed /\ i < n
    IN [r EXCEPT !.executed = Append(@, <<i, name>>),
                 !.results = IF interrupt
                               THEN @ \o <<result, InterruptNotice(i, n)>>
                               ELSE Append(@, result),
                 !.interrupted = IF interrupt THEN i ELSE 0,
                 !.absorbed = @ \/ ~ok,
                 !.phase = IF interrupt \/ i = n THEN "Aggregating" ELSE "Executing"]

Execute ==
    /\ run.phase = "Executing"
    /\ \E ok \in BOOLEAN, changed \in BOOLEAN : run' = ExecuteStep(run, ok, changed)
    /\ UNCHANGED <<heap, amp, userMsg, sp, calls>>

\* Aggregating that leaves the step counter where it is
AggregateStep_NoAdvance(r) ==
    LET failures == IF r.step_failed THEN r.failures + 1 ELSE 0
        has_done == \E i \in 1..Len(r.decision) : r.decision[i] = "done"
        phase == IF failures > MaxFailures THEN "Failed"
                 ELSE IF has_done \/ r.step_number >= r.max_steps THEN "Done"
                 ELSE "Observing"
    IN [r EXCEPT !.phase = phase,
                 !.cause = IF phase = "Failed" THEN "ConsecutiveFailures"
                           ELSE IF phase = "Done" /\ has_done THEN "done action"
                           ELSE IF phase = "Done" THEN "step budget"
                           ELSE "",
                 !.failures = failures,
                 !.last = [decision |-> r.decision, executed |-> r.executed,
                           interrupted |-> r.interrupted, results |-> r.results],
                 !.decision = <<>>, !.executed = <<>>, !.results = <<>>,
                 !.interrupted = 0, !.observed = FALSE, !.step_failed = FALSE,
                 !.retries = 0, !.eval_retries = 0]

\* Aggregating: the step's results become the next observation's input, the
\* step counter advances, and the run ends or loops
AggregateStep(r) ==
    LET failures == IF r.step_failed THEN r.failures + 1 ELSE 0
        step_number == r.step_number + 1
        has_done == \E i \in 1..Len(r.decision) : r.decision[i] = "done"
        phase == IF failures > MaxFailures THEN "Failed"
                 ELSE IF has_done \/ step_number >= r.max_steps THEN "Done"
                 ELSE "Observing"
    IN [r EXCEPT !.phase = phase,
                 !.cause = IF phase = "Failed" THEN "ConsecutiveFailures"
                           ELSE IF phase = "Done" /\ has_done THEN "done action"
                           ELSE IF phase = "Done" THEN "step budget"
                           ELSE "",
                 !.failures = failures,
                 !.step_number = step_number,
                 !.last = [decision |-> r.decision, executed |-> r.executed,
                           interrupted |-> r.interrupted, results |-> r.results],
                 !.decision = <<>>, !.executed = <<>>, !.results = <<>>,
                 !.interrupted = 0, !.observed = FALSE, !.step_failed = FALSE,
                 !.retries = 0, !.eval_retries = 0]

Aggregate ==
    /\ run.phase = "Aggregating"
    /\ run' = AggregateStep(run)
    /\ UNCHANGED <<heap, amp, userMsg, sp, calls>>

PipelineInit ==
    /\ heap = InitialHeap
    /\ amp = DefaultAgentMessagePrompt
    /\ userMsg = NoMessage
    /\ sp = [o \in Objects |-> DefaultSystemPrompt]
    /\ calls = [o \in Objects |-> [m \in Methods |-> NoCall]]
    /\ \E max_steps \in 1..MaxSteps, two_stage \in BOOLEAN :
         run = IdleRun(max_steps, two_stage)

PipelineNext ==
    \/ StartRun
    \/ Observe
    \/ ObserveError
    \/ DriverLost
    \/ Evaluate
    \/ EvaluateError
    \/ Filter
    \/ Decide
    \/ DecideError
    \/ Execute
    \/ Aggregate

\* one thread of control per run, and every awaited call completes or times out
SpecPipeline == PipelineInit /\ [][PipelineNext]_vars /\ WF_vars(PipelineNext)

\* the steps 1..k of a decision, in list order
FirstActions(decision, k) == [j \in 1..k |-> <<j, decision[j]>>]

\* C3: when the page changes after action k of n (1 <= k < n), exactly the
\* actions 1..k are executed, in list order, none of k+1..n is, and the next
\* step's observation holds the k results and the notice of the interruption.
C3_SequenceInterrupted ==
    /\ run.interrupted > 0 =>
          /\ run.interrupted < Len(run.decision)
          /\ run.executed = FirstActions(run.decision, run.interrupted)
          /\ run.phase = "Aggregating"
    /\ run.last.interrupted > 0 =>
          LET k == run.last.interrupted
              n == Len(run.last.decision)
          IN /\ k < n
             /\ run.last.executed = FirstActions(run.last.decision, k)
             /\ run.observed =>
                  LET L == LinesOf(userMsg.text) IN
                  /\ Produced
                  /\ \A i \in 1..k :
                       \E b \in 1..Len(L) :
                           \/ L[b] = LineTag("result", i, k + 1)
                                       \o "did " \o run.last.decision[i]
                           \/ L[b] = LineTag("error", i, k + 1) \o "..."
                                       \o "ActionExecutionError: "
                                       \o run.last.decision[i] \o " failed"
                  /\ \E b \in 1..Len(L) :
                       L[b] = LineTag("result", k + 1, k + 1)
                                \o Val(InterruptNotice(k, n).extracted_content)
                  /\ Cardinality(ActionLineStarts(L)) = k + 1

C3_Witness ==
    /\ run.observed
    /\ run.last.interrupted = 2
    /\ Len(run.last.decision) = 3
    /\ Len(run.last.executed) = 2
    /\ HasLineStarting(userMsg.text, "Action result 3/3: Sequence interrupted after action 2/3")

====
